---- MODULE Spec2Model ----
(***************************************************************************)
(* A model of the SP network (src/sp_network.py) and of the differential   *)
(* cryptanalysis engine (src/differential_cryptanalysis.py).               *)
(*                                                                         *)
(* Python integers are modelled as TLA+ integers (no width, no wrap).      *)
(* Python dicts are modelled as functions; their iteration order is the    *)
(* ascending order of the keys, which is the insertion order of every dict *)
(* the program builds (main.py lists its tables in ascending key order,    *)
(* the difference distribution is filled by range() loops).                *)
(* Python's None is modelled by the integer None, which no operation of    *)
(* the program returns as a number.                                        *)
(*                                                                         *)
(* Every network that is built has tables of 16 entries, so data_size is   *)
(* 16, and table values within the 16-bit block: no shift count of the     *)
(* program is negative. The exceptions modelled are the ValueError of the  *)
(* constructor and the KeyError of a dict indexed by a missing key.        *)
(***************************************************************************)
EXTENDS Integers, Sequences, FiniteSets, TLC

VARIABLES
    args,                     \* the arguments the constructor is called with
    state,                    \* "unbuilt" | "built" | "failed"
    keys,                     \* SP_Network.keys
    substitution,             \* SP_Network.substitution
    inv_substitution,         \* SP_Network.inv_substitution
    permutation,              \* SP_Network.permutation
    rounds,                   \* SP_Network.rounds
    data_size,                \* SP_Network.data_size
    difference_distribution,  \* DifferentialCryptanalysis.difference_distribution
    call                      \* the call in progress: its arguments and its outcome

vars == <<args, state, keys, substitution, inv_substitution, permutation,
          rounds, data_size, difference_distribution, call>>

network == <<keys, substitution, inv_substitution, permutation, rounds, data_size>>

(***************************************************************************)
(* Bounds of the model.                                                    *)
(***************************************************************************)
MaxRounds == 3
MaxPairs == 2
MaxScored == 768

None == -1

(***************************************************************************)
(* Python's integer operators on non-negative integers.                    *)
(***************************************************************************)
RECURSIVE Pow(_, _)
Pow(b, e) == IF e = 0 THEN 1 ELSE b * Pow(b, e - 1)

ShiftRight(x, n) == x \div Pow(2, n)

ShiftLeft(x, n) == x * Pow(2, n)

RECURSIVE BitsXor(_, _, _)
BitsXor(a, b, n) ==
    IF n = 0 THEN 0
    ELSE ((a + b) % 2) + 2 * BitsXor(a \div 2, b \div 2, n - 1)

RECURSIVE BitsOr(_, _, _)
BitsOr(a, b, n) ==
    IF n = 0 THEN 0
    ELSE (IF a % 2 = 1 \/ b % 2 = 1 THEN 1 ELSE 0)
         + 2 * BitsOr(a \div 2, b \div 2, n - 1)

XorNibble == [a \in 0..15 |-> [b \in 0..15 |-> BitsXor(a, b, 4)]]

OrNibble == [a \in 0..15 |-> [b \in 0..15 |-> BitsOr(a, b, 4)]]

RECURSIVE BitXor(_, _)
BitXor(a, b) ==
    IF a = 0 THEN b
    ELSE IF b = 0 THEN a
    ELSE XorNibble[a % 16][b % 16] + 16 * BitXor(a \div 16, b \div 16)

RECURSIVE BitOr(_, _)
BitOr(a, b) ==
    IF a = 0 THEN b
    ELSE IF b = 0 THEN a
    ELSE OrNibble[a % 16][b % 16] + 16 * BitOr(a \div 16, b \div 16)

Range(f) == {f[k] : k \in DOMAIN f}

SetMax(S) == CHOOSE m \in S : \A n \in S : n <= m

(***************************************************************************)
(* The cipher descriptions the constructor is called with.                 *)
(***************************************************************************)
MainSubstitution ==
    [x \in 0..15 |->
        <<14, 4, 13, 1, 2, 15, 11, 8, 3, 10, 6, 12, 5, 9, 0, 7>>[x + 1]]

MainPermutation ==
    <<1, 5, 9, 13, 2, 6, 10, 14, 3, 7, 11, 15, 4, 8, 12, 16>>

MainKeys == <<1, 2, 3, 4, 516>>

SubstitutionTables ==
    {MainSubstitution,
     [x \in 0..15 |-> MainSubstitution[XorNibble[x][9]]],  \* bijection
     [x \in 0..15 |-> x],                       \* identity
     [x \in 0..15 |-> (5 * x + 3) % 16],        \* affine bijection
     [x \in 0..15 |-> x \div 2],                \* not injective
     [x \in 1..16 |-> x - 1],                   \* 16 entries, no key 0
     [x \in 0..3 |-> x]}                        \* 4 entries

PermutationTables ==
    {MainPermutation,                           \* self-inverse
     [i \in 1..16 |-> i],                       \* identity
     [i \in 1..16 |-> (i % 16) + 1],            \* a 16-cycle, not self-inverse
     [i \in 1..16 |-> ((5 * i) % 16) + 1],      \* bijection, not self-inverse
     [i \in 0..15 |-> i],                       \* 16 entries, no key 16
     [i \in 1..15 |-> i],                       \* 15 entries
     [i \in 1..17 |-> i]}                       \* 17 entries

\* r + 1 round keys in [0, 2^16)
KeySchedule(r) == [i \in 1..(r + 1) |-> (7919 * i + 516 * r) % 65536]

\* one round; the last round key is 0x3002, with two zero nibbles
ZeroNibbleKeys == <<8435, 12290>>

KeySchedules ==
    {KeySchedule(r) : r \in 1..MaxRounds} \cup {MainKeys, ZeroNibbleKeys}

\* every substitution table with the permutation of main.py, and every
\* permutation table with the substitution of main.py
Tables ==
    {<<s, MainPermutation>> : s \in SubstitutionTables}
    \cup {<<MainSubstitution, p>> : p \in PermutationTables}

Configs ==
    {[keys |-> k, substitution |-> t[1], permutation |-> t[2]] :
        k \in KeySchedules, t \in Tables}

Plaintexts == {782, 0, 65535, 43981}

\* differences: none active, main.py's delta_p (0x0B00, one active nibble) and
\* its characteristic (0x0606, two active nibbles)
Differences == {0, 2816, 1542}

\* 16-bit blocks: every pattern of zero and non-zero nibbles, the block
\* 0x1003, the differences and the block of all ones
Blocks ==
    {b[0] + 16 * b[1] + 256 * b[2] + 4096 * b[3] : b \in [0..3 -> {0, 3}]}
    \cup {4099, 65535} \cup Differences

\* the values random.randint draws, in the order of the draws: two streams
DrawStreams ==
    {[n \in 1..MaxPairs |-> (782 + 21845 * n) % 65536],
     [n \in 1..MaxPairs |-> (4660 * n) % 65536]}

Draws == {SubSeq(d, 1, n) : d \in DrawStreams, n \in 0..MaxPairs}

(***************************************************************************)
(* SP_Network                                                              *)
(***************************************************************************)
keymix(round_num, input_data) == BitXor(keys[round_num + 1], input_data)

\* sbox with the looked-up value itself as the fallback of a miss
sbox_FallbackInput(input_data, invert) ==
    LET sbox_dict == IF invert THEN inv_substitution ELSE substitution
    IN  IF input_data \in DOMAIN sbox_dict THEN sbox_dict[input_data] ELSE input_data

sbox(input_data, invert) ==
    LET sbox_dict == IF invert THEN inv_substitution ELSE substitution
    IN  IF input_data \in DOMAIN sbox_dict THEN sbox_dict[input_data] ELSE 0

\* "" when permute returns; self.permutation[i] raises KeyError when the
\* position i is not a key of the table
permuteRaises ==
    IF \E i \in 1..data_size : i \notin DOMAIN permutation THEN "KeyError" ELSE ""

\* loop[i, output_data]: the for loop from iteration i on
permute(input_data) ==
    LET loop[i \in 1..(data_size + 1), output_data \in Nat] ==
            IF i > data_size THEN output_data
            ELSE loop[i + 1,
                      BitOr(output_data,
                            ShiftLeft(ShiftRight(input_data, data_size - permutation[i]) % 2,
                                      data_size - i))]
    IN  loop[1, 0]

\* loop[i, output_data]: the for loop from iteration i on (i = 0, 4, 8, ...)
substitute(input_data, invert) ==
    LET loop[i \in Nat, output_data \in Nat] ==
            IF i >= data_size THEN output_data
            ELSE LET group == ShiftRight(input_data, data_size - i - 4) % 16
                     sbox_result == sbox(group, invert)
                 IN  loop[i + 4, BitOr(ShiftLeft(output_data, 4), sbox_result)]
    IN  loop[0, 0]

run_round(index, input_data) ==
    permute(substitute(keymix(index, input_data), FALSE))

run_reverse_round(index, input_data) ==
    keymix(index, substitute(permute(input_data), TRUE))

run_last_round(input_data) ==
    keymix(rounds, substitute(keymix(rounds - 1, input_data), FALSE))

run_reverse_last_round(input_data) ==
    keymix(rounds - 1, substitute(keymix(rounds, input_data), TRUE))

\* loop[i, buffer]: the for loop from round i on, then the last round
encrypt(plain) ==
    LET loop[i \in Nat, buffer \in Nat] ==
            IF i >= rounds - 1 THEN run_last_round(buffer)
            ELSE loop[i + 1, run_round(i, buffer)]
    IN  loop[0, plain]

\* loop[i, buffer]: the for loop from round i down to round 0
decrypt(cipher) ==
    LET loop[i \in Int, buffer \in Nat] ==
            IF i < 0 THEN buffer
            ELSE loop[i - 1, run_reverse_round(i, buffer)]
    IN  loop[rounds - 2, run_reverse_last_round(cipher)]

\* encrypt and decrypt call permute only when there is a round before the last
cipherRaises == IF rounds >= 2 THEN permuteRaises ELSE ""

(***************************************************************************)
(* DifferentialCryptanalysis                                               *)
(***************************************************************************)
\* differenceCount with the loop over x starting at 1
differenceCount_SkipsZero(delta_x, delta_y) ==
    LET loop[x \in 0..data_size, count \in Nat] ==
            IF x >= data_size THEN count
            ELSE LET y == sbox(x, FALSE)
                     x2 == BitXor(x, delta_x)
                     y2 == sbox(x2, FALSE)
                     pred_delta_y == BitXor(y, y2)
                 IN  loop[x + 1, IF pred_delta_y = delta_y THEN count + 1 ELSE count]
    IN  loop[1, 0]

\* differenceCount with x2 = x | delta_x
differenceCount_OrPartner(delta_x, delta_y) ==
    LET loop[x \in 0..data_size, count \in Nat] ==
            IF x >= data_size THEN count
            ELSE LET y == sbox(x, FALSE)
                     x2 == BitOr(x, delta_x)
                     y2 == sbox(x2, FALSE)
                     pred_delta_y == BitXor(y, y2)
                 IN  loop[x + 1, IF pred_delta_y = delta_y THEN count + 1 ELSE count]
    IN  loop[0, 0]

\* the counter difference_distribution[delta_x][delta_y] after the loop over x;
\* loop[x, count]: the loop from iteration x on
differenceCount(delta_x, delta_y) ==
    LET loop[x \in 0..data_size, count \in Nat] ==
            IF x >= data_size THEN count
            ELSE LET y == sbox(x, FALSE)
                     x2 == BitXor(x, delta_x)
                     y2 == sbox(x2, FALSE)
                     pred_delta_y == BitXor(y, y2)
                 IN  loop[x + 1, IF pred_delta_y = delta_y THEN count + 1 ELSE count]
    IN  loop[0, 0]

calculate_difference_distribution ==
    [delta_x \in 0..(data_size - 1) |->
        [delta_y \in 0..(data_size - 1) |-> differenceCount(delta_x, delta_y)]]

\* get_max_delta_y with min in the place of max
get_max_delta_y_Min(delta_x) ==
    LET delta_y_dict == difference_distribution[delta_x]
        loop[delta_y \in 0..data_size, best \in Nat] ==
            IF delta_y >= data_size THEN best
            ELSE loop[delta_y + 1,
                      IF delta_y_dict[delta_y] < delta_y_dict[best]
                      THEN delta_y ELSE best]
    IN  loop[1, 0]

\* get_max_delta_y keeping the last of the output differences of maximal count
get_max_delta_y_LastOnTies(delta_x) ==
    LET delta_y_dict == difference_distribution[delta_x]
        loop[delta_y \in 0..data_size, best \in Nat] ==
            IF delta_y >= data_size THEN best
            ELSE loop[delta_y + 1,
                      IF delta_y_dict[delta_y] >= delta_y_dict[best]
                      THEN delta_y ELSE best]
    IN  loop[1, 0]

\* max(delta_y_dict, key=delta_y_dict.get): the first key, in the order of the
\* dict, whose value no other key exceeds; loop[delta_y, best]: the scan from
\* key delta_y on
get_max_delta_y(delta_x) ==
    LET delta_y_dict == difference_distribution[delta_x]
        loop[delta_y \in 0..data_size, best \in Nat] ==
            IF delta_y >= data_size THEN best
            ELSE loop[delta_y + 1,
                      IF delta_y_dict[delta_y] > delta_y_dict[best]
                      THEN delta_y ELSE best]
    IN  loop[1, 0]

\* get_active_sboxes testing the top bit of a nibble (& 0x8) instead of & 0xF
get_active_sboxes_TopBitOnly(input_data) ==
    LET loop[i \in 0..4, active_sboxes \in Seq(1..4)] ==
            IF i >= 4 THEN active_sboxes
            ELSE loop[i + 1,
                      IF ShiftRight(input_data, i * 4) % 16 >= 8
                      THEN Append(active_sboxes, 4 - i) ELSE active_sboxes]
    IN  loop[0, <<>>]

\* get_active_sboxes inserting each position at the front of the list
get_active_sboxes_Prepend(input_data) ==
    LET loop[i \in 0..4, active_sboxes \in Seq(1..4)] ==
            IF i >= 4 THEN active_sboxes
            ELSE loop[i + 1,
                      IF ShiftRight(input_data, i * 4) % 16 > 0
                      THEN <<4 - i>> \o active_sboxes ELSE active_sboxes]
    IN  loop[0, <<>>]

\* loop[i, active_sboxes]: the for loop from iteration i on
get_active_sboxes(input_data) ==
    LET loop[i \in 0..4, active_sboxes \in Seq(1..4)] ==
            IF i >= 4 THEN active_sboxes
            ELSE loop[i + 1,
                      IF ShiftRight(input_data, i * 4) % 16 > 0
                      THEN Append(active_sboxes, 4 - i) ELSE active_sboxes]
    IN  loop[0, <<>>]

\* loop[n, output]: the for loop from the n-th active S-box on
get_output_difference(input_difference) ==
    LET active_sboxes == get_active_sboxes(input_difference)
        loop[n \in 1..5, output \in Nat] ==
            IF n > Len(active_sboxes) THEN output
            ELSE LET i == active_sboxes[n]
                     delta_x == ShiftRight(input_difference, data_size - i * 4) % 16
                     delta_y == get_max_delta_y(delta_x)
                 IN  loop[n + 1, BitOr(output, ShiftLeft(delta_y, data_size - i * 4))]
    IN  loop[1, 0]

\* The float probability is 1 multiplied, in turn, by factors
\* difference_distribution[delta_x][delta_y] / data_size; it is modelled by the
\* sequence of the counts it has been multiplied by (<<>> is the probability 1).
\* loop[i, probability]: the for loop from iteration i on
get_difference_pair_probability(u, v) ==
    LET loop[i \in 0..4, probability \in Seq(Nat)] ==
            IF i >= 4 THEN probability
            ELSE LET delta_x == ShiftRight(u, i * 4) % 16
                     delta_y == ShiftRight(v, i * 4) % 16
                 IN  IF delta_x = 0 /\ delta_y = 0
                     THEN loop[i + 1, probability]
                     ELSE loop[i + 1,
                               Append(probability,
                                      difference_distribution[delta_x][delta_y])]
    IN  loop[0, <<>>]

\* loop[n, u, probability]: the for loop when n iterations are done
get_differential_characteristic(delta_p) ==
    LET loop[n \in Nat, u \in Nat, probability \in Seq(Nat)] ==
            IF n >= rounds - 1 THEN [u |-> u, probability |-> probability]
            ELSE LET v == get_output_difference(u)
                 IN  loop[n + 1, permute(v),
                          probability \o get_difference_pair_probability(u, v)]
    IN  loop[0, delta_p, <<>>]

\* "" when get_differential_characteristic returns. Its loop body runs when
\* rounds > 1: self.difference_distribution[delta_x] raises KeyError for an
\* active S-box while the table is not calculated, and permute may raise.
characteristicRaises(delta_p) ==
    IF rounds < 2 THEN ""
    ELSE IF /\ difference_distribution = <<>>
            /\ \/ get_active_sboxes(delta_p) # <<>>      \* get_max_delta_y
               \/ delta_p % 65536 # 0   \* get_difference_pair_probability
         THEN "KeyError"
    ELSE permuteRaises

\* convert_to_block placing the groups by the loop index, not the S-box index
convert_to_block_ByLoopIndex(active_sboxes, data) ==
    LET len == Len(active_sboxes)
        groups == [n \in 1..len |-> ShiftRight(data, 4 * (len - n)) % 16]
        loop[n \in 1..5, output \in Nat] ==
            IF n > len THEN output
            ELSE LET group == groups[n]
                 IN  loop[n + 1,
                          BitOr(output, ShiftLeft(group, data_size - n * 4))]
    IN  loop[1, 0]

\* groups: data cut into len(active_sboxes) nibbles, each inserted at the front
convert_to_block(active_sboxes, data) ==
    LET len == Len(active_sboxes)
        groups == [n \in 1..len |-> ShiftRight(data, 4 * (len - n)) % 16]
        loop[n \in 1..5, output \in Nat] ==
            IF n > len THEN output
            ELSE LET sbox_index == active_sboxes[n]
                     group == groups[n]
                 IN  loop[n + 1,
                          BitOr(output, ShiftLeft(group, data_size - sbox_index * 4))]
    IN  loop[1, 0]

partial_decrypt(ciphertext, subkey_value) ==
    substitute(BitXor(ciphertext, subkey_value), TRUE)

check_expected_difference(partial_decryption_1, partial_decryption_2, diff_characteristic) ==
    BitXor(partial_decryption_1, partial_decryption_2) = diff_characteristic

\* the sum of check_expected_difference over the pairs;
\* loop[n, count]: the sum from the n-th pair on
scoreSubkey(ciphertext_pairs, diff_characteristic, subkey) ==
    LET loop[n \in 1..(Len(ciphertext_pairs) + 1), count \in Nat] ==
            IF n > Len(ciphertext_pairs) THEN count
            ELSE LET ciphertext_1 == ciphertext_pairs[n][1]
                     ciphertext_2 == ciphertext_pairs[n][2]
                 IN  loop[n + 1,
                          IF check_expected_difference(
                                 partial_decrypt(ciphertext_1, subkey),
                                 partial_decrypt(ciphertext_2, subkey),
                                 diff_characteristic)
                          THEN count + 1 ELSE count]
    IN  loop[1, 0]

\* subkey_counts after the loop, as the sequence of its (subkey, count) items
\* in the order of the assignments (i = 1, 2, ...). A dict keeps one item per
\* key, at the place of the key's first assignment; the count is a function
\* of the subkey, so an item assigned twice carries the same count twice.
scoreSubkeys(ciphertext_pairs, diff_characteristic) ==
    LET active_sboxes == get_active_sboxes(diff_characteristic)
        num_of_keys == Pow(Pow(2, 4), Len(active_sboxes))
    IN  [i \in 1..(num_of_keys - 1) |->
            LET subkey == convert_to_block(active_sboxes, i)
            IN  [subkey |-> subkey,
                 count |-> scoreSubkey(ciphertext_pairs, diff_characteristic, subkey)]]

\* maxSubkey replacing the item it holds also on an equal count
maxSubkey_LastOnTies(subkey_counts) ==
    LET scan[lo \in 1..Len(subkey_counts), hi \in 1..Len(subkey_counts)] ==
            IF lo = hi THEN lo
            ELSE LET mid == (lo + hi) \div 2
                     left == scan[lo, mid]
                     right == scan[mid + 1, hi]
                 IN  IF subkey_counts[right].count >= subkey_counts[left].count
                     THEN right ELSE left
    IN  subkey_counts[scan[1, Len(subkey_counts)]].subkey

\* max(subkey_counts, key=subkey_counts.get) scans the items in order and
\* keeps the item it holds unless the next one has a strictly greater count.
\* scan[lo, hi]: the index the scan of the items lo..hi holds at its end; the
\* scan of lo..hi is the scan of lo..mid continued over mid+1..hi, which ends
\* on the best of mid+1..hi exactly when that one beats the best of lo..mid.
maxSubkey(subkey_counts) ==
    LET scan[lo \in 1..Len(subkey_counts), hi \in 1..Len(subkey_counts)] ==
            IF lo = hi THEN lo
            ELSE LET mid == (lo + hi) \div 2
                     left == scan[lo, mid]
                     right == scan[mid + 1, hi]
                 IN  IF subkey_counts[right].count > subkey_counts[left].count
                     THEN right ELSE left
    IN  subkey_counts[scan[1, Len(subkey_counts)]].subkey

\* attackResult returning None when no candidate has been counted
attackResult_NoneIfUncounted(subkey_counts) ==
    IF \E i \in 1..Len(subkey_counts) : subkey_counts[i].count > 0
    THEN maxSubkey(subkey_counts) ELSE None

\* the value perform_attack returns for the subkey_counts it has built
attackResult(subkey_counts) ==
    IF subkey_counts # <<>> THEN maxSubkey(subkey_counts) ELSE None

\* the list built by the for loop; plaintexts is the sequence of the values
\* random.randint draws, one per iteration
generate_plaintext_and_ciphertext_pairs(delta_p, plaintexts) ==
    [n \in 1..Len(plaintexts) |->
        LET plaintext_1 == plaintexts[n]
            plaintext_2 == BitXor(plaintext_1, delta_p)
        IN  <<encrypt(plaintext_1), encrypt(plaintext_2)>>]

(***************************************************************************)
(* The state machine.                                                      *)
(***************************************************************************)
Idle == [op |-> "idle"]

Init ==
    /\ args \in Configs
    /\ state = "unbuilt"
    /\ keys = <<>>
    /\ substitution = <<>>
    /\ inv_substitution = <<>>
    /\ permutation = <<>>
    /\ rounds = 0
    /\ data_size = 0
    /\ difference_distribution = <<>>
    /\ call = Idle

\* New rejecting only a substitution table smaller than the permutation table
New_RejectsSmallerOnly ==
    /\ state = "unbuilt"
    /\ IF Cardinality(DOMAIN args.substitution) < Cardinality(DOMAIN args.permutation)
       THEN /\ state' = "failed"
            /\ call' = [op |-> "new", raised |-> "ValueError"]
            /\ UNCHANGED network
       ELSE /\ state' = "built"
            /\ call' = [op |-> "new", raised |-> ""]
            /\ keys' = args.keys
            /\ substitution' = args.substitution
            /\ inv_substitution' =
                 [v \in Range(args.substitution) |->
                    SetMax({k \in DOMAIN args.substitution : args.substitution[k] = v})]
            /\ permutation' = args.permutation
            /\ rounds' = Len(args.keys) - 1
            /\ data_size' = Cardinality(DOMAIN args.substitution)
    /\ UNCHANGED <<args, difference_distribution>>

\* SP_Network.__init__ followed by DifferentialCryptanalysis.__init__
New ==
    /\ state = "unbuilt"
    /\ IF Cardinality(DOMAIN args.substitution) # Cardinality(DOMAIN args.permutation)
       THEN /\ state' = "failed"
            /\ call' = [op |-> "new", raised |-> "ValueError"]
            /\ UNCHANGED network
       ELSE /\ state' = "built"
            /\ call' = [op |-> "new", raised |-> ""]
            /\ keys' = args.keys
            /\ substitution' = args.substitution
            /\ inv_substitution' =
                 [v \in Range(args.substitution) |->
                    SetMax({k \in DOMAIN args.substitution : args.substitution[k] = v})]
            /\ permutation' = args.permutation
            /\ rounds' = Len(args.keys) - 1
            /\ data_size' = Cardinality(DOMAIN args.substitution)
    /\ UNCHANGED <<args, difference_distribution>>

Encrypt(plain) ==
    /\ state = "built"
    /\ call.op = "idle"
    /\ call' = [op |-> "encrypt", plain |-> plain, raised |-> cipherRaises,
                out |-> IF cipherRaises = "" THEN encrypt(plain) ELSE None]
    /\ UNCHANGED <<args, state, network, difference_distribution>>

\* the driver decrypts the ciphertext it has just obtained
Decrypt ==
    /\ state = "built"
    /\ call.op = "encrypt"
    /\ call.raised = ""
    /\ call' = [op |-> "decrypt", plain |-> call.plain, cipher |-> call.out,
                raised |-> cipherRaises,
                out |-> IF cipherRaises = "" THEN decrypt(call.out) ELSE None]
    /\ UNCHANGED <<args, state, network, difference_distribution>>

Sbox(input_data, invert) ==
    /\ state = "built"
    /\ call.op = "idle"
    /\ call' = [op |-> "sbox", input_data |-> input_data, invert |-> invert,
                raised |-> "", out |-> sbox(input_data, invert)]
    /\ UNCHANGED <<args, state, network, difference_distribution>>

Permute(input_data) ==
    /\ state = "built"
    /\ call.op = "idle"
    /\ call' = [op |-> "permute", input_data |-> input_data,
                raised |-> permuteRaises,
                out |-> IF permuteRaises = "" THEN permute(input_data) ELSE None]
    /\ UNCHANGED <<args, state, network, difference_distribution>>

CalculateDifferenceDistribution ==
    /\ state = "built"
    /\ call.op = "idle"
    /\ difference_distribution' = calculate_difference_distribution
    /\ call' = [op |-> "calculate_difference_distribution", raised |-> ""]
    /\ UNCHANGED <<args, state, network>>

GetDifferentialCharacteristic(delta_p) ==
    /\ state = "built"
    /\ call.op = "idle"
    /\ LET raised == characteristicRaises(delta_p)
           result == IF raised = "" THEN get_differential_characteristic(delta_p)
                     ELSE [u |-> None, probability |-> <<>>]
       IN  call' = [op |-> "get_differential_characteristic", delta_p |-> delta_p,
                    raised |-> raised,
                    u |-> result.u, probability |-> result.probability]
    /\ UNCHANGED <<args, state, network, difference_distribution>>

GetActiveSboxes(input_data) ==
    /\ state = "built"
    /\ call.op = "idle"
    /\ call' = [op |-> "get_active_sboxes", input_data |-> input_data,
                raised |-> "", out |-> get_active_sboxes(input_data)]
    /\ UNCHANGED <<args, state, network, difference_distribution>>

GeneratePairs(delta_p, plaintexts) ==
    /\ state = "built"
    /\ call.op = "idle"
    /\ LET raised == IF plaintexts = <<>> THEN "" ELSE cipherRaises
       IN  call' = [op |-> "generate_plaintext_and_ciphertext_pairs",
                    delta_p |-> delta_p, plaintexts |-> plaintexts,
                    raised |-> raised,
                    out |-> IF raised = ""
                            THEN generate_plaintext_and_ciphertext_pairs(delta_p, plaintexts)
                            ELSE <<>>]
    /\ UNCHANGED <<args, state, network, difference_distribution>>

\* the driver attacks with the pairs it has just generated; delta_p and
\* plaintexts are what the pairs were generated from
PerformAttack(diff_characteristic) ==
    /\ state = "built"
    /\ call.op = "generate_plaintext_and_ciphertext_pairs"
    /\ call.raised = ""
    /\ (Len(call.out) + 1) * Pow(16, Len(get_active_sboxes(diff_characteristic)))
          <= MaxScored
    /\ LET subkey_counts == scoreSubkeys(call.out, diff_characteristic)
       IN  call' = [op |-> "perform_attack", ciphertext_pairs |-> call.out,
                    delta_p |-> call.delta_p, plaintexts |-> call.plaintexts,
                    diff_characteristic |-> diff_characteristic,
                    subkey_counts |-> subkey_counts,
                    raised |-> "", out |-> attackResult(subkey_counts)]
    /\ UNCHANGED <<args, state, network, difference_distribution>>

Return ==
    /\ state = "built"
    /\ call.op # "idle"
    /\ call' = Idle
    /\ UNCHANGED <<args, state, network, difference_distribution>>

Next ==
    \/ New
    \/ \E plain \in Plaintexts : Encrypt(plain)
    \/ Decrypt
    \/ \E input_data \in 0..16, invert \in BOOLEAN : Sbox(input_data, invert)
    \/ \E input_data \in Plaintexts : Permute(input_data)
    \/ CalculateDifferenceDistribution
    \/ \E delta_p \in Blocks : GetDifferentialCharacteristic(delta_p)
    \/ \E input_data \in Blocks : GetActiveSboxes(input_data)
    \/ \E delta_p \in Differences, plaintexts \in Draws :
            GeneratePairs(delta_p, plaintexts)
    \/ \E diff_characteristic \in Differences : PerformAttack(diff_characteristic)
    \/ Return

Spec == Init /\ [][Next]_vars

(***************************************************************************)
(* The claims.                                                             *)
(***************************************************************************)
Nibble(x, i) == (x \div Pow(16, i)) % 16

ActiveNibbles(x) == {i \in 0..3 : Nibble(x, i) # 0}

SubstitutionIsBijection ==
    DOMAIN substitution = 0..15 /\ Range(substitution) = 0..15

PermutationIsBijection ==
    DOMAIN permutation = 1..data_size /\ Range(permutation) = 1..data_size

PermutationIsSelfInverse ==
    \A i \in DOMAIN permutation :
        permutation[i] \in DOMAIN permutation /\ permutation[permutation[i]] = i

KeysInRange == \A i \in DOMAIN keys : keys[i] \in 0..65535

\* C1: for a bijective substitution table, any bijective permutation table,
\* round keys in [0, 2^N) and rounds >= 1, decrypt(encrypt(x)) = x.
C1_RoundTrip ==
    (/\ call.op = "decrypt"
     /\ SubstitutionIsBijection
     /\ PermutationIsBijection
     /\ KeysInRange
     /\ rounds >= 1)
    => (call.raised = "" /\ call.out = call.plain)

\* With a self-inverse permutation table run_reverse_round undoes run_round,
\* and the round trip holds: decrypt applies the table itself where the
\* inverse table is due.
RoundTripWhenSelfInverse ==
    (/\ call.op = "decrypt"
     /\ SubstitutionIsBijection
     /\ PermutationIsBijection
     /\ PermutationIsSelfInverse
     /\ KeysInRange)
    => (call.raised = "" /\ call.out = call.plain)

\* C2 as stated: with an empty list of pairs perform_attack returns None for
\* every target difference.
C2_NoPairsNoResult ==
    (call.op = "perform_attack" /\ call.ciphertext_pairs = <<>>)
    => call.out = None

\* C2 as amended: with an empty list of pairs perform_attack returns None
\* exactly when the target difference has no active nibble; otherwise it
\* returns the first candidate it enumerates, which is 1 in the most
\* significant active nibble and 0 elsewhere.
C2_NoPairsFirstCandidate ==
    (call.op = "perform_attack" /\ call.ciphertext_pairs = <<>>)
    => LET active == ActiveNibbles(call.diff_characteristic)
       IN  IF active = {} THEN call.out = None
           ELSE call.out = Pow(16, SetMax(active))

C2_Witness ==
    /\ call.op = "perform_attack"
    /\ call.ciphertext_pairs = <<>>
    /\ Cardinality(ActiveNibbles(call.diff_characteristic)) = 2
    /\ call.out # None

\* C3 as stated: with at least one pair perform_attack returns a candidate,
\* never None, for every target difference.
C3_PairsGiveCandidate ==
    (call.op = "perform_attack" /\ Len(call.ciphertext_pairs) >= 1)
    => call.out # None

\* C3 as amended: with at least one pair perform_attack returns a candidate
\* (an integer in [1, 2^16)) when the target difference has an active nibble,
\* and None when it has none.
C3_PairsGiveCandidateIfActive ==
    (call.op = "perform_attack" /\ Len(call.ciphertext_pairs) >= 1)
    => IF ActiveNibbles(call.diff_characteristic) = {}
       THEN call.out = None
       ELSE call.out \in 1..65535

C3_Witness ==
    /\ call.op = "perform_attack"
    /\ Len(call.ciphertext_pairs) >= 1
    /\ ActiveNibbles(call.diff_characteristic) # {}
    /\ call.out \in 1..65535

SboxMiss ==
    /\ call.op = "sbox"
    /\ call.input_data \notin
         DOMAIN (IF call.invert THEN inv_substitution ELSE substitution)

PermuteMiss ==
    /\ call.op = "permute"
    /\ \E i \in 1..data_size : i \notin DOMAIN permutation

SizesDiffer ==
    Cardinality(DOMAIN args.substitution) # Cardinality(DOMAIN args.permutation)

\* C5: constructing a cipher with tables of different sizes raises ValueError
\* and yields no cipher object, so no operation runs on it; construction with
\* tables of equal sizes never raises it.
C5_SizeCheck ==
    /\ state = "failed" => SizesDiffer
    /\ state = "built" => ~SizesDiffer
    /\ SizesDiffer =>
          /\ call.op \in {"idle", "new"}
          /\ call.op = "new" => call.raised = "ValueError"
          /\ network = <<<<>>, <<>>, <<>>, <<>>, 0, 0>>
    /\ ~SizesDiffer => (call.op = "new" => call.raised = "")

C5_Witness ==
    /\ state = "failed"
    /\ call = [op |-> "new", raised |-> "ValueError"]
    /\ Cardinality(DOMAIN args.substitution) > Cardinality(DOMAIN args.permutation)

SubstitutionIsTotal == DOMAIN substitution = 0..15

RECURSIVE RowSum(_, _)
RowSum(row, n) == IF n = 0 THEN 0 ELSE row[n - 1] + RowSum(row, n - 1)

\* C6: after calculate_difference_distribution, for a substitution table that
\* is total on {0..D-1}, the counts of every row delta_x sum to D = 16.
C6_RowSum ==
    (difference_distribution # <<>> /\ SubstitutionIsTotal)
    => /\ data_size = 16
       /\ DOMAIN difference_distribution = 0..15
       /\ \A delta_x \in 0..15 :
             RowSum(difference_distribution[delta_x], 16) = 16

C6_Witness ==
    /\ call.op = "calculate_difference_distribution"
    /\ SubstitutionIsTotal
    /\ \E delta_x \in 1..15 :
          Cardinality({delta_y \in 0..15 :
                          difference_distribution[delta_x][delta_y] > 0}) >= 6

\* C7: the table calculate_difference_distribution builds has, for every
\* delta_x and delta_y, table[delta_x][delta_y] = the number of x in {0..D-1}
\* with S(x) XOR S(x XOR delta_x) = delta_y; for the identity substitution
\* table[dx][dx] = 16 and table[dx][dy] = 0 for dy # dx; for any substitution
\* table[0][0] = D and table[0][dy] = 0 for dy # 0.
C7_TableEntries ==
    call.op = "calculate_difference_distribution"
    => /\ SubstitutionIsTotal =>
             \A delta_x \in 0..15, delta_y \in 0..15 :
                difference_distribution[delta_x][delta_y] =
                    Cardinality({x \in 0..15 :
                        BitXor(substitution[x], substitution[BitXor(x, delta_x)])
                            = delta_y})
       /\ substitution = [x \in 0..15 |-> x] =>
             \A delta_x \in 0..15, delta_y \in 0..15 :
                difference_distribution[delta_x][delta_y] =
                    IF delta_y = delta_x THEN 16 ELSE 0
       /\ \A delta_y \in 0..15 :
             difference_distribution[0][delta_y] = IF delta_y = 0 THEN 16 ELSE 0

C7_Witness ==
    /\ call.op = "calculate_difference_distribution"
    /\ substitution = [x \in 0..15 |-> x]
    /\ difference_distribution[11][11] = 16

\* C8: for a bijective substitution table and rounds >= 1, the probability
\* get_differential_characteristic returns is a product of factors count / 16
\* with 1 <= count <= 16, hence 0 < probability <= 1.
C8_ProbabilityBound ==
    (/\ call.op = "get_differential_characteristic"
     /\ call.raised = ""
     /\ SubstitutionIsBijection
     /\ rounds >= 1)
    => \A n \in 1..Len(call.probability) : call.probability[n] \in 1..16

C8_Witness ==
    /\ call.op = "get_differential_characteristic"
    /\ call.raised = ""
    /\ SubstitutionIsBijection
    /\ Len(call.probability) >= 3
    /\ \E n \in 1..Len(call.probability) : call.probability[n] < 16

\* the values whose non-zero nibbles are confined to the nibbles of active
Confined(active) ==
    {a * 4096 + b * 256 + c * 16 + d :
        a \in IF 3 \in active THEN 0..15 ELSE {0},
        b \in IF 2 \in active THEN 0..15 ELSE {0},
        c \in IF 1 \in active THEN 0..15 ELSE {0},
        d \in IF 0 \in active THEN 0..15 ELSE {0}}

\* C9: for a target difference with k active nibbles, the candidates
\* perform_attack scores are 16^k - 1 pairwise distinct non-zero values, zero
\* in every nibble that is not active, and together exactly the non-zero
\* values whose non-zero nibbles are confined to the active positions.
C9_Candidates ==
    call.op = "perform_attack"
    => LET active == ActiveNibbles(call.diff_characteristic)
           n == Len(call.subkey_counts)
           candidates == {call.subkey_counts[i].subkey : i \in 1..n}
       IN  /\ n = Pow(16, Cardinality(active)) - 1
           /\ Cardinality(candidates) = n
           /\ \A subkey \in candidates :
                 /\ subkey # 0
                 /\ \A i \in 0..3 : i \notin active => Nibble(subkey, i) = 0
                 /\ subkey < 65536
           /\ candidates = Confined(active) \ {0}

C9_Witness ==
    /\ call.op = "perform_attack"
    /\ Cardinality(ActiveNibbles(call.diff_characteristic)) = 2
    /\ Len(call.subkey_counts) = 255

\* the number of the supplied pairs the candidate subkey is counted for
PairsCounted(subkey) ==
    Cardinality({n \in 1..Len(call.ciphertext_pairs) :
        BitXor(partial_decrypt(call.ciphertext_pairs[n][1], subkey),
               partial_decrypt(call.ciphertext_pairs[n][2], subkey))
            = call.diff_characteristic})

\* C10: perform_attack returns a candidate whose count (the number of supplied
\* pairs with partial_decrypt(c1, k) XOR partial_decrypt(c2, k) = the target
\* difference) is maximal among the enumerated candidates, and among the
\* candidates of maximal count the one enumerated first.
C10_FirstMaximum ==
    (call.op = "perform_attack" /\ call.subkey_counts # <<>>)
    => LET n == Len(call.subkey_counts)
       IN  /\ \A i \in 1..n :
                 call.subkey_counts[i].count =
                     PairsCounted(call.subkey_counts[i].subkey)
           /\ \E i \in 1..n :
                 /\ call.out = call.subkey_counts[i].subkey
                 /\ \A j \in 1..n :
                       call.subkey_counts[j].count <= call.subkey_counts[i].count
                 /\ \A j \in 1..(i - 1) :
                       call.subkey_counts[j].count < call.subkey_counts[i].count

\* a call where the first candidate does not win and the winner is tied
C10_Witness ==
    /\ call.op = "perform_attack"
    /\ call.subkey_counts # <<>>
    /\ call.out # call.subkey_counts[1].subkey
    /\ \E i, j \in 1..Len(call.subkey_counts) :
          /\ i < j
          /\ call.subkey_counts[i].subkey = call.out
          /\ call.subkey_counts[i].count >= 1
          /\ call.subkey_counts[j].count = call.subkey_counts[i].count

\* C11: for a 16-bit block d, get_active_sboxes(d) lists exactly the positions
\* 4 - i of the nibbles i in 0..3 (i = 0 least significant) that are non-zero
\* in d, by increasing i, so by decreasing position; for 0x1003 it is [4, 1].
C11_ActivePositions ==
    call.op = "get_active_sboxes"
    => /\ Len(call.out) = Cardinality(ActiveNibbles(call.input_data))
       /\ \A n \in 1..Len(call.out) :
             4 - call.out[n] \in ActiveNibbles(call.input_data)
       /\ \A n \in 1..(Len(call.out) - 1) : call.out[n] > call.out[n + 1]
       /\ call.input_data = 4099 => call.out = <<4, 1>>

C11_Witness ==
    /\ call.op = "get_active_sboxes"
    /\ call.input_data = 4099
    /\ call.out = <<4, 1>>

\* the output difference of maximal count for the input difference dx, the
\* smallest one on ties
MaxOutputFor(dx) ==
    CHOOSE dy \in 0..15 :
        /\ \A e \in 0..15 :
              difference_distribution[dx][e] <= difference_distribution[dx][dy]
        /\ \A e \in 0..(dy - 1) :
              difference_distribution[dx][e] < difference_distribution[dx][dy]

\* u with each active nibble replaced in place by MaxOutputFor of its value
Predicted(u) ==
    LET place[i \in 0..3] ==
            IF Nibble(u, i) = 0 THEN 0 ELSE MaxOutputFor(Nibble(u, i)) * Pow(16, i)
    IN  place[0] + place[1] + place[2] + place[3]

\* the input difference of iteration n of the greedy propagation from delta_p
Propagated(delta_p, n) ==
    LET u[m \in 0..n] == IF m = 0 THEN delta_p ELSE permute(Predicted(u[m - 1]))
    IN  u[n]

\* the (iteration, active nibble) steps of the propagation whose count is c
StepsOfCount(delta_p, c) ==
    {step \in (0..(rounds - 2)) \X (0..3) :
        LET u == Propagated(delta_p, step[1])
            dx == Nibble(u, step[2])
        IN  /\ dx # 0
            /\ difference_distribution[dx][MaxOutputFor(dx)] = c}

\* C12: get_differential_characteristic(delta_p) returns the u of the greedy
\* propagation after rounds - 1 iterations of { v = Predicted(u); u =
\* permute(v) }, and a probability that is the product of table[dx][dy] / 16
\* over the active nibbles of all iterations: the factors other than 16 / 16
\* are the same ones, as many times; for rounds = 1 it returns (delta_p, 1).
C12_GreedyPropagation ==
    (call.op = "get_differential_characteristic" /\ call.raised = "")
    => /\ call.u = Propagated(call.delta_p, rounds - 1)
       /\ \A c \in 0..15 :
             Cardinality({k \in 1..Len(call.probability) : call.probability[k] = c})
                = Cardinality(StepsOfCount(call.delta_p, c))
       /\ rounds = 1 => (call.u = call.delta_p /\ call.probability = <<>>)

\* a characteristic over three rounds or more, from a difference with an
\* active nibble whose row of the table has its maximal count twice
C12_Witness ==
    /\ call.op = "get_differential_characteristic"
    /\ call.raised = ""
    /\ rounds >= 3
    /\ Len(call.probability) >= 4
    /\ call.u = Propagated(call.delta_p, rounds - 1)
    /\ call.u # call.delta_p
    /\ \E i \in ActiveNibbles(call.delta_p) :
          LET dx == Nibble(call.delta_p, i)
          IN  \E e \in 0..15 :
                /\ e # MaxOutputFor(dx)
                /\ difference_distribution[dx][e]
                      = difference_distribution[dx][MaxOutputFor(dx)]

\* the state entering the substitution of the last round when plain is
\* encrypted: rounds - 1 full rounds, then the key mix with key rounds - 1
LastRoundInput(plain) ==
    LET loop[i \in 0..rounds, data \in Nat] ==
            IF i >= rounds - 1 THEN data ELSE loop[i + 1, run_round(i, data)]
    IN  keymix(rounds - 1, loop[0, plain])

\* the last round key with the nibbles outside the active positions of D zero
TrueSubkey(D) ==
    LET place[i \in 0..3] ==
            IF Nibble(D, i) = 0 THEN 0 ELSE Nibble(keys[rounds + 1], i) * Pow(16, i)
    IN  place[0] + place[1] + place[2] + place[3]

\* the XOR of the states that enter the last substitution for the n-th pair
\* generated from the plaintexts and delta_p
LastRoundDifference(plaintexts, delta_p, n) ==
    BitXor(LastRoundInput(plaintexts[n]),
           LastRoundInput(BitXor(plaintexts[n], delta_p)))

\* the pairs of the attack whose last round difference is the target
RightPairs ==
    {n \in 1..Len(call.plaintexts) :
        LastRoundDifference(call.plaintexts, call.delta_p, n)
            = call.diff_characteristic}

\* With a bijective substitution table, partially decrypting the two
\* ciphertexts of a pair with the true subkey of their last round difference
\* D gives back two values of difference D.
PartialDecryptRecoversDifference ==
    (/\ call.op = "generate_plaintext_and_ciphertext_pairs"
     /\ call.raised = ""
     /\ SubstitutionIsBijection)
    => \A n \in 1..Len(call.out) :
          LET D == LastRoundDifference(call.plaintexts, call.delta_p, n)
              k == TrueSubkey(D)
          IN  BitXor(partial_decrypt(call.out[n][1], k),
                     partial_decrypt(call.out[n][2], k)) = D

TrueKeyCountedUnlessZero ==
    (/\ call.op = "perform_attack"
     /\ SubstitutionIsBijection
     /\ RightPairs # {}
     /\ TrueSubkey(call.diff_characteristic) # 0)
    => \E j \in 1..Len(call.subkey_counts) :
          /\ call.subkey_counts[j].subkey = TrueSubkey(call.diff_characteristic)
          /\ call.subkey_counts[j].count >= Cardinality(RightPairs)

\* an attack on a target with an active nibble where every pair is a right
\* pair and the true subkey is zero: the attack returns another subkey
ZeroTrueSubkeyAttacked ==
    /\ call.op = "perform_attack"
    /\ SubstitutionIsBijection
    /\ ActiveNibbles(call.diff_characteristic) # {}
    /\ RightPairs = 1..MaxPairs
    /\ TrueSubkey(call.diff_characteristic) = 0
    /\ call.out # 0
====
